---------------------------- MODULE Spec2Model ----------------------------
(***************************************************************************)
(* A model of the notebook acs_zeropoints.ipynb: the IPython kernel's      *)
(* namespace is the state, every code cell is one action.  The cells are   *)
(* executed once each in notebook order, and the run goes on after a cell  *)
(* that raised.  A statement that raises ends its cell and leaves the      *)
(* bindings made by the statements before it.                              *)
(*                                                                         *)
(* Numbers.  A float64 value is modelled by                                *)
(*     NaN, Inf(1), Inf(-1)                the IEEE special values,        *)
(*     Fin(q, l)                           the real number                 *)
(*          q + l[1]*log10(2) + l[2]*log10(3) + l[3]*log10(61)             *)
(* with q and the l[i] exact rationals <<numerator, denominator>>.  The    *)
(* arithmetic on finite values is exact (binary64 rounding, overflow and   *)
(* signed zeros are not modelled); the special values follow numpy's       *)
(* float64 rules, with the RuntimeWarning numpy emits.  log10 is exact on  *)
(* the positive rationals whose prime factors are 2, 3, 5 and 61, which    *)
(* is where every input of the model is drawn from (0.915 = 3*61/(2^3*5^2)).*)
(***************************************************************************)
EXTENDS Integers, Sequences, FiniteSets, TLC

(***************************************************************************)
(* Exact rationals <<n, d>>, d > 0, in lowest terms.                       *)
(***************************************************************************)
Abs(n) == IF n < 0 THEN -n ELSE n

RECURSIVE GCD(_, _)
GCD(a, b) == IF b = 0 THEN a ELSE GCD(b, a % b)

Rat(n, d) ==
    LET g == GCD(Abs(n), Abs(d))
        s == IF d < 0 THEN -1 ELSE 1
    IN  <<(s * n) \div g, (s * d) \div g>>

RZero == <<0, 1>>

RAdd(a, b) == Rat(a[1] * b[2] + b[1] * a[2], a[2] * b[2])

RNeg(a) == <<-a[1], a[2]>>

RMul(a, b) == Rat(a[1] * b[1], a[2] * b[2])

RDiv(a, b) == Rat(a[1] * b[2], a[2] * b[1])

RSign(a) == IF a[1] > 0 THEN 1 ELSE IF a[1] < 0 THEN -1 ELSE 0

(***************************************************************************)
(* float64 values.                                                         *)
(***************************************************************************)
NoLog == <<RZero, RZero, RZero>>

NaN == [t |-> "nan"]

Inf(s) == [t |-> "inf", s |-> s]

Fin(q, l) == [t |-> "fin", q |-> q, l |-> l]

\* A value outside the exact representation (a product of two logarithms,
\* the logarithm of a number with another prime factor): none is reachable.
Unrep == [t |-> "unrep"]

Num(n, d) == Fin(Rat(n, d), NoLog)

IsFinite(x) == x.t = "fin"

IsRational(x) == x.t = "fin" /\ x.l = NoLog

IsZero(x) == IsRational(x) /\ x.q[1] = 0

\* log10(2), log10(3), log10(61) bracketed in units of 10^-4.
LogLo == <<3010, 4771, 17853>>

LogHi == <<3011, 4772, 17854>>

FloorDiv(a, b) == a \div b

CeilDiv(a, b) == -((-a) \div b)

\* Lower and upper bounds of a finite value, in units of 10^-4.
Lower(x) ==
    LET term(i) == IF x.l[i][1] >= 0
                   THEN FloorDiv(x.l[i][1] * LogLo[i], x.l[i][2])
                   ELSE FloorDiv(x.l[i][1] * LogHi[i], x.l[i][2])
    IN  FloorDiv(x.q[1] * 10000, x.q[2]) + term(1) + term(2) + term(3)

Upper(x) ==
    LET term(i) == IF x.l[i][1] >= 0
                   THEN CeilDiv(x.l[i][1] * LogHi[i], x.l[i][2])
                   ELSE CeilDiv(x.l[i][1] * LogLo[i], x.l[i][2])
    IN  CeilDiv(x.q[1] * 10000, x.q[2]) + term(1) + term(2) + term(3)

\* The sign of a value: 1, -1, 0; 2 for NaN (and for a finite value the
\* brackets cannot decide, which no reachable value is).
Sign(x) ==
    CASE x.t = "inf" -> x.s
      [] x.t = "fin" ->
            IF x.l = NoLog THEN RSign(x.q)
            ELSE IF Lower(x) > 0 THEN 1
            ELSE IF Upper(x) < 0 THEN -1
            ELSE 2
      [] OTHER -> 2

Neg(x) ==
    CASE x.t = "inf" -> Inf(-x.s)
      [] x.t = "fin" -> Fin(RNeg(x.q), [i \in 1..3 |-> RNeg(x.l[i])])
      [] OTHER -> x

\* a + b
Add(a, b) ==
    CASE a.t = "unrep" \/ b.t = "unrep" -> Unrep
      [] a.t = "nan" \/ b.t = "nan" -> NaN
      [] a.t = "inf" /\ b.t = "inf" -> IF a.s = b.s THEN a ELSE NaN
      [] a.t = "inf" -> a
      [] b.t = "inf" -> b
      [] OTHER -> Fin(RAdd(a.q, b.q), [i \in 1..3 |-> RAdd(a.l[i], b.l[i])])

\* a - b
Sub(a, b) == Add(a, Neg(b))

\* a * b
Mul(a, b) ==
    CASE a.t = "unrep" \/ b.t = "unrep" -> Unrep
      [] a.t = "nan" \/ b.t = "nan" -> NaN
      [] a.t = "inf" \/ b.t = "inf" ->
            IF IsZero(a) \/ IsZero(b) THEN NaN
            ELSE IF Sign(a) = 2 \/ Sign(b) = 2 THEN Unrep
            ELSE Inf(Sign(a) * Sign(b))
      [] IsRational(a) -> Fin(RMul(a.q, b.q), [i \in 1..3 |-> RMul(a.q, b.l[i])])
      [] IsRational(b) -> Fin(RMul(a.q, b.q), [i \in 1..3 |-> RMul(a.l[i], b.q)])
      [] OTHER -> Unrep

\* a / b with numpy's float64 rules: x/0 is +-inf, 0/0 and inf/inf are nan.
Div(a, b) ==
    CASE a.t = "unrep" \/ b.t = "unrep" -> Unrep
      [] a.t = "nan" \/ b.t = "nan" -> NaN
      [] IsZero(b) ->
            IF IsZero(a) THEN NaN
            ELSE IF Sign(a) = 2 THEN Unrep
            ELSE Inf(Sign(a))
      [] b.t = "inf" -> IF a.t = "inf" THEN NaN ELSE Num(0, 1)
      [] ~IsRational(b) -> Unrep
      [] a.t = "inf" -> Inf(a.s * RSign(b.q))
      [] OTHER -> Fin(RDiv(a.q, b.q), [i \in 1..3 |-> RDiv(a.l[i], b.q)])

\* The multiplicity of the prime p in n >= 1, and n without its factors p.
RECURSIVE Val(_, _)
Val(p, n) == IF n % p = 0 THEN 1 + Val(p, n \div p) ELSE 0

RECURSIVE Strip(_, _)
Strip(p, n) == IF n % p = 0 THEN Strip(p, n \div p) ELSE n

Smooth(n) == Strip(61, Strip(5, Strip(3, Strip(2, n)))) = 1

\* np.log10(x): -inf at 0, nan below 0.
Log10(x) ==
    CASE x.t = "unrep" -> Unrep
      [] x.t = "nan" -> NaN
      [] x.t = "inf" -> IF x.s = 1 THEN Inf(1) ELSE NaN
      [] ~IsRational(x) -> Unrep
      [] x.q[1] = 0 -> Inf(-1)
      [] x.q[1] < 0 -> NaN
      [] ~(Smooth(x.q[1]) /\ Smooth(x.q[2])) -> Unrep
      [] OTHER ->
            LET v(p) == Val(p, x.q[1]) - Val(p, x.q[2])
            IN  Fin(<<v(5), 1>>,
                    <<<<v(2) - v(5), 1>>, <<v(3), 1>>, <<v(61), 1>>>>)

\* a < b, a > b, a <= 0 as float64 comparisons (false when either is nan).
Less(a, b) == Sign(Sub(b, a)) = 1

Greater(a, b) == Less(b, a)

IsPositive(x) == Sign(x) = 1

IsNonPositive(x) == Sign(x) \in {0, -1}


\* Elementwise float64 warnings numpy emits (RuntimeWarning).
DivWarn(a, b) ==
    IF a.t \in {"nan", "unrep"} \/ b.t \in {"nan", "unrep"} THEN {}
    ELSE IF IsZero(b) /\ IsZero(a) THEN {"invalid value encountered"}
    ELSE IF IsZero(b) /\ a.t = "fin" THEN {"divide by zero encountered"}
    ELSE IF a.t = "inf" /\ b.t = "inf" THEN {"invalid value encountered"}
    ELSE {}

LogWarn(x) ==
    IF IsZero(x) THEN {"divide by zero encountered"}
    ELSE IF Sign(x) = -1 THEN {"invalid value encountered"}
    ELSE {}

MulWarn(a, b) ==
    IF (a.t = "inf" /\ IsZero(b)) \/ (IsZero(a) /\ b.t = "inf")
    THEN {"invalid value encountered"} ELSE {}

AddWarn(a, b) ==
    IF a.t = "inf" /\ b.t = "inf" /\ a.s # b.s
    THEN {"invalid value encountered"} ELSE {}

(***************************************************************************)
(* Values of the kernel namespace.                                         *)
(***************************************************************************)
Unbound == [t |-> "unbound"]

Bound(x) == x # Unbound

\* A numpy array of float64.
Array(v) == [t |-> "array", v |-> v]

\* The union of the sets of a sequence of sets.
RECURSIVE UnionAll(_)
UnionAll(s) == IF s = <<>> THEN {} ELSE Head(s) \cup UnionAll(Tail(s))

\* array / scalar, array * scalar, np.log10(array), scalar * array, array + scalar
ArrDiv(a, c) == Array([i \in DOMAIN a.v |-> Div(a.v[i], c)])

ArrDivWarn(a, c) == UnionAll([i \in DOMAIN a.v |-> DivWarn(a.v[i], c)])

ArrMul(a, c) == Array([i \in DOMAIN a.v |-> Mul(a.v[i], c)])

ArrMulWarn(a, c) == UnionAll([i \in DOMAIN a.v |-> MulWarn(a.v[i], c)])

ArrLog10(a) == Array([i \in DOMAIN a.v |-> Log10(a.v[i])])

ArrLogWarn(a) == UnionAll([i \in DOMAIN a.v |-> LogWarn(a.v[i])])

ArrAdd(a, c) == Array([i \in DOMAIN a.v |-> Add(a.v[i], c)])

ArrAddWarn(a, c) == UnionAll([i \in DOMAIN a.v |-> AddWarn(a.v[i], c)])

(***************************************************************************)
(* Observation-mode strings, as sequences of characters.  Both libraries   *)
(* drop the blanks of the string and split it at the commas.               *)
(***************************************************************************)
ObsmodePysynphot ==
    <<"a","c","s",",","w","f","c","1",",","f","5","5","5","w",",",
      "m","j","d","#","5","7","7","5","4">>

ObsmodeStsynphot ==
    <<"a","c","s",","," ","w","f","c","1",","," ","f","5","5","5","w",","," ",
      "m","j","d","#","5","7","7","5","4">>

Obsmode02 == ObsmodePysynphot \o <<",","a","p","e","r","#","0",".","2">>

\* Mutant: the 0.5" bandpass at another epoch.
Obsmode05_OtherEpoch ==
    <<"a","c","s",",","w","f","c","1",",","f","5","5","5","w",",",
      "m","j","d","#","5","2","3","3","4",",","a","p","e","r","#","0",".","5">>

Obsmode05 == ObsmodePysynphot \o <<",","a","p","e","r","#","0",".","5">>

RECURSIVE DropBlanks(_)
DropBlanks(s) ==
    IF s = <<>> THEN <<>>
    ELSE IF Head(s) = " " THEN DropBlanks(Tail(s))
    ELSE <<Head(s)>> \o DropBlanks(Tail(s))

\* s.split(','): the pieces of s between its commas.
RECURSIVE Split(_, _)
Split(s, piece) ==
    IF s = <<>> THEN <<piece>>
    ELSE IF Head(s) = "," THEN <<piece>> \o Split(Tail(s), <<>>)
    ELSE Split(Tail(s), Append(piece, Head(s)))

ParseObsmode(s) == Split(DropBlanks(s), <<>>)

IsPrefix(p, s) == Len(p) <= Len(s) /\ SubSeq(s, 1, Len(p)) = p

IsAperture(tok) == IsPrefix(<<"a","p","e","r","#">>, tok)

\* The instrument, detector, filter and epoch of a parsed mode (its keywords
\* other than the aperture), and its aperture radius (<<>> when it has none).
Configuration(modes) == SelectSeq(modes, LAMBDA tok : ~IsAperture(tok))

Aperture(modes) ==
    LET a == SelectSeq(modes, IsAperture)
    IN  IF a = <<>> THEN <<>> ELSE SubSeq(a[1], 6, Len(a[1]))

\* Objects of the two synthetic-photometry libraries.
Spectrum(lib) == [t |-> "spectrum", lib |-> lib]

Bandpass(lib, obsmode) == [t |-> "bandpass", lib |-> lib, modes |-> ParseObsmode(obsmode)]

Observation(spec, band) == [t |-> "observation", spec |-> spec, band |-> band]

IsPysynphot(x) == x.t \in {"spectrum", "bandpass"} /\ x.lib = "pysynphot"


(***************************************************************************)
(* The inputs: the measurements a user puts in the notebook, the table     *)
(* value of the 0.5"->infinity correction and the numbers the synthetic-   *)
(* photometry library returns.                                             *)
(***************************************************************************)
MaxSources == 2

FluxValues == {Num(10, 1), Num(5, 1), Num(0, 1), Num(-2, 1)}

MeasurementSets == UNION {[1..n -> FluxValues] : n \in 0..MaxSources}

\* 0.915 is the notebook's value.
CorrectionTable == {Num(915, 1000), Num(9, 10), Num(0, 1)}

Countrate02Values == {Num(1, 1), Num(0, 1)}

Countrate05Values == {Num(2, 1), Num(0, 1)}

PhotflamValues == {Num(1, 1000), Num(1, 100), Num(0, 1), Num(-1, 1000)}

PhotplamValues == {Num(5000, 1), Num(5400, 1)}

VegaZeropoints == {Num(257, 10), Num(26, 1)}

STZeropoints == {Num(258, 10)}

ABZeropoints == {Num(259, 10)}

(***************************************************************************)
(* The state: the names of the kernel's namespace, the process             *)
(* environment, and the position in the notebook.                          *)
(***************************************************************************)
VARIABLES
    imported,              \* the module and class names bound by import
    cmd_input,
    PYSYN_CDBS,            \* os.environ['PYSYN_CDBS']
    spec_bb, bp, spec_bb_norm,
    obs, photflam, photplam,
    zp_vega, zp_st, zp_ab,
    instrumental_flux, correction_05_to_inf,
    band02, band05, obs02, obs05, correction_02_to_05,
    flux05, flux_inf,
    zp_stmag, zp_abmag,
    f_lambda, stmags, abmags, vegamags,
    phot_table,
    pc,                    \* the index in Cells of the next cell
    outcome,               \* how the last cell ended
    warnings,              \* the RuntimeWarnings emitted so far
    provenance,            \* the parsed observation modes each calibration
                           \* quantity was computed under
    executed               \* the cells executed so far (those with an In[n])

setup == <<imported, cmd_input, PYSYN_CDBS>>

synth == <<spec_bb, bp, spec_bb_norm>>

calib == <<obs, photflam, photplam, zp_vega, zp_st, zp_ab>>

meas == <<instrumental_flux, correction_05_to_inf>>

aper == <<band02, band05, obs02, obs05, correction_02_to_05>>

fluxes == <<flux05, flux_inf>>

recalc == <<zp_stmag, zp_abmag>>

mags == <<f_lambda, stmags, abmags, vegamags>>

vars == <<setup, synth, calib, meas, aper, fluxes, recalc, mags, phot_table,
          pc, outcome, warnings, provenance, executed>>

\* The code cells, in notebook order.
Cells ==
    <<"imports", "download", "unpack", "import_synphot",
      "generate_pysynphot", "generate_synphot", "help_renorm",
      "observe", "photcal", "zeropoints", "measurements",
      "correction_05_to_inf", "bands", "correction_02_to_05",
      "aperture", "recalc_zeropoints", "convert", "table">>

At(cell) == pc <= Len(Cells) /\ Cells[pc] = cell

Done == pc = Len(Cells) + 1

CalibrationNames ==
    {"photflam", "photplam", "zp_vega", "zp_st", "zp_ab", "correction_02_to_05"}

Init ==
    /\ imported = {}
    /\ cmd_input = Unbound
    /\ PYSYN_CDBS = Unbound
    /\ spec_bb = Unbound /\ bp = Unbound /\ spec_bb_norm = Unbound
    /\ obs = Unbound /\ photflam = Unbound /\ photplam = Unbound
    /\ zp_vega = Unbound /\ zp_st = Unbound /\ zp_ab = Unbound
    /\ instrumental_flux = Unbound /\ correction_05_to_inf = Unbound
    /\ band02 = Unbound /\ band05 = Unbound
    /\ obs02 = Unbound /\ obs05 = Unbound
    /\ correction_02_to_05 = Unbound
    /\ flux05 = Unbound /\ flux_inf = Unbound
    /\ zp_stmag = Unbound /\ zp_abmag = Unbound
    /\ f_lambda = Unbound /\ stmags = Unbound
    /\ abmags = Unbound /\ vegamags = Unbound
    /\ phot_table = Unbound
    /\ pc = 1
    /\ outcome = "none"
    /\ warnings = {}
    /\ provenance = [n \in CalibrationNames |-> {}]
    /\ executed = {}

\* The cell ends: normally when every statement ran, else with the exception.
Ends(ran, exception) ==
    /\ pc' = pc + 1
    /\ outcome' = IF ran THEN "ok" ELSE exception
    /\ executed' = executed \cup {Cells[pc]}

(***************************************************************************)
(* Set-up cells.                                                           *)
(***************************************************************************)
\* import os / matplotlib.pyplot as plt / numpy as np / Table
CellImports ==
    /\ At("imports")
    /\ imported' = imported \cup {"os", "plt", "np", "Table"}
    /\ Ends(TRUE, "")
    /\ UNCHANGED <<cmd_input, PYSYN_CDBS, synth, calib, meas, aper, fluxes,
                   recalc, mags, phot_table, warnings, provenance>>

\* cmd_input = 'curl -O ...'; os.system(cmd_input)
CellDownload ==
    /\ At("download")
    /\ cmd_input' = [t |-> "str", s |-> "curl -O ftp://archive.stsci.edu/pub/hst/pysynphot/synphot1.tar.gz"]
    /\ Ends("os" \in imported, "NameError")
    /\ UNCHANGED <<imported, PYSYN_CDBS, synth, calib, meas, aper, fluxes,
                   recalc, mags, phot_table, warnings, provenance>>

\* cmd_input = 'tar -xvf ...'; os.system(cmd_input); os.environ['PYSYN_CDBS'] = ...
CellUnpack ==
    /\ At("unpack")
    /\ cmd_input' = [t |-> "str", s |-> "tar -xvf synphot1.tar.gz"]
    /\ PYSYN_CDBS' = IF "os" \in imported
                     THEN [t |-> "str", s |-> "./grp/hst/cdbs/"]
                     ELSE PYSYN_CDBS
    /\ Ends("os" \in imported, "NameError")
    /\ UNCHANGED <<imported, synth, calib, meas, aper, fluxes,
                   recalc, mags, phot_table, warnings, provenance>>

\* import stsynphot as stS; import pysynphot as pyS
CellImportSynphot ==
    /\ At("import_synphot")
    /\ imported' = imported \cup {"stS", "pyS"}
    /\ Ends(TRUE, "")
    /\ UNCHANGED <<cmd_input, PYSYN_CDBS, synth, calib, meas, aper, fluxes,
                   recalc, mags, phot_table, warnings, provenance>>

(***************************************************************************)
(* Generating the data: the same three names, bound by pysynphot and then  *)
(* by synphot/stsynphot.                                                   *)
(***************************************************************************)
CellGeneratePysynphot ==
    /\ At("generate_pysynphot")
    /\ LET s1 == "pyS" \in imported           \* spec_bb = pyS.BlackBody(10000)
           s2 == s1 /\ "plt" \in imported     \* plt.plot(...); bp = ...
           band == Bandpass("pysynphot", ObsmodePysynphot)
       IN  /\ spec_bb' = IF s1 THEN Spectrum("pysynphot") ELSE spec_bb
           /\ bp' = IF s2 THEN band ELSE bp
           /\ spec_bb_norm' = IF s2 THEN Spectrum("pysynphot") ELSE spec_bb_norm
           /\ Ends(s2, "NameError")
    /\ UNCHANGED <<setup, calib, meas, aper, fluxes, recalc, mags, phot_table,
                   warnings, provenance>>

CellGenerateSynphot ==
    /\ At("generate_synphot")
    /\ LET s2 == "plt" \in imported           \* plt.plot(...)
           s3 == s2 /\ "stS" \in imported     \* bp = stS.band(...)
           band == Bandpass("stsynphot", ObsmodeStsynphot)
       IN  /\ imported' = imported \cup {"SourceSpectrum", "BlackBodyNorm1D"}
           /\ spec_bb' = Spectrum("synphot")
           /\ bp' = IF s3 THEN band ELSE bp
           /\ spec_bb_norm' = IF s3 THEN Spectrum("synphot") ELSE spec_bb_norm
           /\ Ends(s3, "NameError")
    /\ UNCHANGED <<cmd_input, PYSYN_CDBS, calib, meas, aper, fluxes, recalc,
                   mags, phot_table, warnings, provenance>>

\* help(spec_bb.renorm): renorm is a method of pysynphot's spectra only.
CellHelpRenorm ==
    /\ At("help_renorm")
    /\ IF ~Bound(spec_bb) THEN Ends(FALSE, "NameError")
       ELSE Ends(IsPysynphot(spec_bb), "AttributeError")
    /\ UNCHANGED <<setup, synth, calib, meas, aper, fluxes, recalc, mags,
                   phot_table, warnings, provenance>>

(***************************************************************************)
(* Calculating the zeropoints.                                             *)
(***************************************************************************)
\* obs = pyS.Observation(spec_bb_norm, bp): pysynphot builds an observation
\* of its own spectra and bandpasses, and raises on another library's.
CellObserve ==
    /\ At("observe")
    /\ LET s1 == "pyS" \in imported /\ Bound(spec_bb_norm) /\ Bound(bp)
           s2 == s1 /\ IsPysynphot(spec_bb_norm) /\ IsPysynphot(bp)
       IN  /\ obs' = IF s2 THEN Observation(spec_bb_norm, bp) ELSE obs
           /\ Ends(s2, IF s1 THEN "Exception" ELSE "NameError")
    /\ UNCHANGED <<setup, synth, photflam, photplam, zp_vega, zp_st, zp_ab,
                   meas, aper, fluxes, recalc, mags, phot_table, warnings,
                   provenance>>

\* photflam = obs.effstim('flam'); photplam = bp.pivot()
CellPhotcal ==
    /\ At("photcal")
    /\ \E flam \in PhotflamValues, pivot \in PhotplamValues :
         LET s1 == Bound(obs)
             s2 == s1 /\ Bound(bp)
         IN  /\ photflam' = IF s1 THEN flam ELSE photflam
             /\ photplam' = IF s2 THEN pivot ELSE photplam
             /\ provenance' =
                  IF s2 THEN [provenance EXCEPT !["photflam"] = {obs.band.modes},
                                                !["photplam"] = {bp.modes}]
                  ELSE provenance
             /\ Ends(s2, "NameError")
    /\ UNCHANGED <<setup, synth, obs, zp_vega, zp_st, zp_ab, meas, aper,
                   fluxes, recalc, mags, phot_table, warnings>>

\* zp_vega = obs.effstim('vegamag'); zp_st = ...('stmag'); zp_ab = ...('abmag')
CellZeropoints ==
    /\ At("zeropoints")
    /\ \E vega \in VegaZeropoints, st \in STZeropoints, ab \in ABZeropoints :
         LET s1 == Bound(obs)
         IN  /\ zp_vega' = IF s1 THEN vega ELSE zp_vega
             /\ zp_st' = IF s1 THEN st ELSE zp_st
             /\ zp_ab' = IF s1 THEN ab ELSE zp_ab
             /\ provenance' =
                  IF s1 THEN [provenance EXCEPT !["zp_vega"] = {obs.band.modes},
                                                !["zp_st"] = {obs.band.modes},
                                                !["zp_ab"] = {obs.band.modes}]
                  ELSE provenance
             /\ Ends(s1, "NameError")
    /\ UNCHANGED <<setup, synth, obs, photflam, photplam, meas, aper, fluxes,
                   recalc, mags, phot_table, warnings>>

(***************************************************************************)
(* Converting between instrumental and physical fluxes and magnitudes.     *)
(***************************************************************************)
\* instrumental_flux = np.array([...])
CellMeasurements ==
    /\ At("measurements")
    /\ \E m \in MeasurementSets :
         /\ instrumental_flux' = IF "np" \in imported THEN Array(m)
                                 ELSE instrumental_flux
         /\ Ends("np" \in imported, "NameError")
    /\ UNCHANGED <<setup, synth, calib, correction_05_to_inf, aper, fluxes,
                   recalc, mags, phot_table, warnings, provenance>>

\* correction_05_to_inf = 0.915
CellCorrectionInf ==
    /\ At("correction_05_to_inf")
    /\ \E c \in CorrectionTable : correction_05_to_inf' = c
    /\ Ends(TRUE, "")
    /\ UNCHANGED <<setup, synth, calib, instrumental_flux, aper, fluxes,
                   recalc, mags, phot_table, warnings, provenance>>

\* band02/band05 = pyS.ObsBandpass(...); obs02/obs05 = pyS.Observation(spec_bb, ...)
CellBands ==
    /\ At("bands")
    /\ LET s1 == "pyS" \in imported
           s2 == s1 /\ Bound(spec_bb)
           s3 == s2 /\ IsPysynphot(spec_bb)
           b02 == Bandpass("pysynphot", Obsmode02)
           b05 == Bandpass("pysynphot", Obsmode05)
       IN  /\ band02' = IF s1 THEN b02 ELSE band02
           /\ band05' = IF s1 THEN b05 ELSE band05
           /\ obs02' = IF s3 THEN Observation(spec_bb, b02) ELSE obs02
           /\ obs05' = IF s3 THEN Observation(spec_bb, b05) ELSE obs05
           /\ Ends(s3, IF s2 THEN "Exception" ELSE "NameError")
    /\ UNCHANGED <<setup, synth, calib, meas, correction_02_to_05, fluxes,
                   recalc, mags, phot_table, warnings, provenance>>

\* correction_02_to_05 = obs02.countrate()/obs05.countrate()
ApertureRatio(rate02, rate05) == Div(rate02, rate05)

CellCorrection02to05 ==
    /\ At("correction_02_to_05")
    /\ \E rate02 \in Countrate02Values, rate05 \in Countrate05Values :
         LET s1 == Bound(obs02) /\ Bound(obs05)
         IN  /\ correction_02_to_05' =
                  IF s1 THEN ApertureRatio(rate02, rate05) ELSE correction_02_to_05
             /\ warnings' = IF s1 THEN warnings \cup DivWarn(rate02, rate05)
                            ELSE warnings
             /\ provenance' =
                  IF s1 THEN [provenance EXCEPT !["correction_02_to_05"] =
                                            {obs02.band.modes, obs05.band.modes}]
                  ELSE provenance
             /\ Ends(s1, "NameError")
    /\ UNCHANGED <<setup, synth, calib, meas, band02, band05, obs02, obs05,
                   fluxes, recalc, mags, phot_table>>

\* Mutant: the running sum of the measurements corrected
\* (np.cumsum(instrumental_flux) / correction_02_to_05, over two neighbours).
Flux05_Running(raw, c1) ==
    Array([i \in DOMAIN raw.v |->
             Div(IF i = 1 THEN raw.v[i] ELSE Add(raw.v[i - 1], raw.v[i]), c1)])

\* flux05 = instrumental_flux / correction_02_to_05
Flux05(raw, c1) == ArrDiv(raw, c1)

\* Mutant: the second correction multiplies.
FluxInf_Times(medium, c2) == ArrMul(medium, c2)

\* flux_inf = flux05 / correction_05_to_inf
FluxInf(medium, c2) == ArrDiv(medium, c2)

\* Mutant: the first division in place (instrumental_flux /= correction_02_to_05).
CellAperture_InPlace ==
    /\ At("aperture")
    /\ LET s1 == Bound(instrumental_flux) /\ Bound(correction_02_to_05)
           s2 == s1 /\ Bound(correction_05_to_inf)
           medium == Flux05(instrumental_flux, correction_02_to_05)
       IN  /\ instrumental_flux' = IF s1 THEN medium ELSE instrumental_flux
           /\ flux05' = IF s1 THEN medium ELSE flux05
           /\ flux_inf' = IF s2 THEN FluxInf(medium, correction_05_to_inf)
                          ELSE flux_inf
           /\ warnings' = warnings
                \cup (IF s1 THEN ArrDivWarn(instrumental_flux, correction_02_to_05)
                      ELSE {})
                \cup (IF s2 THEN ArrDivWarn(medium, correction_05_to_inf) ELSE {})
           /\ Ends(s2, "NameError")
    /\ UNCHANGED <<setup, synth, calib, correction_05_to_inf, aper, recalc, mags,
                   phot_table, provenance>>

CellAperture ==
    /\ At("aperture")
    /\ LET s1 == Bound(instrumental_flux) /\ Bound(correction_02_to_05)
           s2 == s1 /\ Bound(correction_05_to_inf)
           medium == Flux05(instrumental_flux, correction_02_to_05)
       IN  /\ flux05' = IF s1 THEN medium ELSE flux05
           /\ flux_inf' = IF s2 THEN FluxInf(medium, correction_05_to_inf)
                          ELSE flux_inf
           /\ warnings' = warnings
                \cup (IF s1 THEN ArrDivWarn(instrumental_flux, correction_02_to_05)
                      ELSE {})
                \cup (IF s2 THEN ArrDivWarn(medium, correction_05_to_inf) ELSE {})
           /\ Ends(s2, "NameError")
    /\ UNCHANGED <<setup, synth, calib, meas, aper, recalc, mags, phot_table,
                   provenance>>

\* zp_stmag = -2.5 * np.log10(photflam) - 21.10
ZpStmag(flam) == Sub(Mul(Num(-25, 10), Log10(flam)), Num(2110, 100))

\* Mutant: the pivot-wavelength term with the factor 2.5.
ZpAbmag_HalfPivot(flam, plam) ==
    Sub(Sub(Mul(Num(-25, 10), Log10(flam)), Mul(Num(25, 10), Log10(plam))),
        Num(2408, 1000))

\* zp_abmag = -2.5 * np.log10(photflam) - (5 * np.log10(photplam)) - 2.408
ZpAbmag(flam, plam) ==
    Sub(Sub(Mul(Num(-25, 10), Log10(flam)), Mul(Num(5, 1), Log10(plam))),
        Num(2408, 1000))

CellRecalcZeropoints ==
    /\ At("recalc_zeropoints")
    /\ LET s1 == "np" \in imported /\ Bound(photflam)
           s2 == s1 /\ Bound(photplam)
       IN  /\ zp_stmag' = IF s1 THEN ZpStmag(photflam) ELSE zp_stmag
           /\ zp_abmag' = IF s2 THEN ZpAbmag(photflam, photplam) ELSE zp_abmag
           /\ warnings' = warnings
                \cup (IF s1 THEN LogWarn(photflam) ELSE {})
                \cup (IF s2 THEN LogWarn(photplam)
                                 \cup AddWarn(Mul(Num(-25, 10), Log10(photflam)),
                                              Neg(Mul(Num(5, 1), Log10(photplam))))
                      ELSE {})
           /\ Ends(s2, "NameError")
    /\ UNCHANGED <<setup, synth, calib, meas, aper, fluxes, mags, phot_table,
                   provenance>>

\* f_lambda = flux_inf * photflam
FLambda(flux, flam) == ArrMul(flux, flam)

\* Mutants: the magnitude with the sign of the logarithm lost, and with the
\* factor 2.
Magnitudes_Positive(flux, zp) == ArrAdd(ArrMul(ArrLog10(flux), Num(25, 10)), zp)

Magnitudes_Factor2(flux, zp) == ArrAdd(ArrMul(ArrLog10(flux), Num(-2, 1)), zp)

\* -2.5 * np.log10(flux_inf) + zp
Magnitudes(flux, zp) == ArrAdd(ArrMul(ArrLog10(flux), Num(-25, 10)), zp)

MagnitudesWarn(flux, zp) ==
    ArrLogWarn(flux) \cup ArrAddWarn(ArrMul(ArrLog10(flux), Num(-25, 10)), zp)

\* Mutant: the ST magnitudes on the zeropoint effstim('stmag') returned.
STZeropoint_Effstim == zp_st

\* The zeropoint each magnitude system is given in the conversion.
STZeropointUsed == zp_stmag

ABZeropointUsed == zp_abmag

VegaZeropointUsed == zp_vega

CellConvert ==
    /\ At("convert")
    /\ LET s1 == Bound(flux_inf) /\ Bound(photflam)
           s2 == s1 /\ "np" \in imported /\ Bound(STZeropointUsed)
           s3 == s2 /\ Bound(ABZeropointUsed)
           s4 == s3 /\ Bound(VegaZeropointUsed)
       IN  /\ f_lambda' = IF s1 THEN FLambda(flux_inf, photflam) ELSE f_lambda
           /\ stmags' = IF s2 THEN Magnitudes(flux_inf, STZeropointUsed) ELSE stmags
           /\ abmags' = IF s3 THEN Magnitudes(flux_inf, ABZeropointUsed) ELSE abmags
           /\ vegamags' = IF s4 THEN Magnitudes(flux_inf, VegaZeropointUsed)
                          ELSE vegamags
           /\ warnings' = warnings
                \cup (IF s1 THEN ArrMulWarn(flux_inf, photflam) ELSE {})
                \cup (IF s2 THEN MagnitudesWarn(flux_inf, STZeropointUsed) ELSE {})
                \cup (IF s3 THEN MagnitudesWarn(flux_inf, ABZeropointUsed) ELSE {})
                \cup (IF s4 THEN MagnitudesWarn(flux_inf, VegaZeropointUsed) ELSE {})
           /\ Ends(s4, "NameError")
    /\ UNCHANGED <<setup, synth, calib, meas, aper, fluxes, recalc, phot_table,
                   provenance>>

\* Table({'Measured Flux': ..., 'F_lambda': ..., 'ST Mag': ..., 'AB Mag': ...,
\* 'Vega Mag': ...}): one column per array, copied; one row per element.
TableColumns == <<"Measured Flux", "F_lambda", "ST Mag", "AB Mag", "Vega Mag">>

\* Mutant: the first two columns exchanged.
Table_Exchanged(measured, flam, st, ab, vega) ==
    [t |-> "table",
     cols |-> ("Measured Flux" :> flam.v) @@ ("F_lambda" :> measured.v)
              @@ ("ST Mag" :> st.v) @@ ("AB Mag" :> ab.v) @@ ("Vega Mag" :> vega.v)]

Table(measured, flam, st, ab, vega) ==
    [t |-> "table",
     cols |-> ("Measured Flux" :> measured.v) @@ ("F_lambda" :> flam.v)
              @@ ("ST Mag" :> st.v) @@ ("AB Mag" :> ab.v) @@ ("Vega Mag" :> vega.v)]

CellTable ==
    /\ At("table")
    /\ LET s1 == /\ "Table" \in imported /\ Bound(instrumental_flux)
                 /\ Bound(f_lambda) /\ Bound(stmags) /\ Bound(abmags)
                 /\ Bound(vegamags)
           s2 == s1 /\ \A a \in {f_lambda, stmags, abmags, vegamags} :
                           Len(a.v) = Len(instrumental_flux.v)
       IN  /\ phot_table' = IF s2 THEN Table(instrumental_flux, f_lambda, stmags,
                                             abmags, vegamags)
                            ELSE phot_table
           /\ Ends(s2, IF s1 THEN "ValueError" ELSE "NameError")
    /\ UNCHANGED <<setup, synth, calib, meas, aper, fluxes, recalc, mags,
                   warnings, provenance>>

\* The two cells that generate the data bind the same names with the two
\* libraries: the user executes both, or passes over one of them.
Skip ==
    /\ At("generate_pysynphot") \/ At("generate_synphot")
    /\ pc' = pc + 1
    /\ outcome' = "skipped"
    /\ UNCHANGED <<setup, synth, calib, meas, aper, fluxes, recalc, mags,
                   phot_table, warnings, provenance, executed>>


Next ==
    \/ CellImports \/ CellDownload \/ CellUnpack \/ CellImportSynphot
    \/ CellGeneratePysynphot \/ CellGenerateSynphot \/ CellHelpRenorm
    \/ CellObserve \/ CellPhotcal \/ CellZeropoints
    \/ CellMeasurements \/ CellCorrectionInf \/ CellBands
    \/ CellCorrection02to05 \/ CellAperture \/ CellRecalcZeropoints
    \/ CellConvert \/ CellTable
    \/ Skip

Spec == Init /\ [][Next]_vars

\* Every number of the namespace is inside the exact representation.
Numbers ==
    <<photflam, photplam, zp_vega, zp_st, zp_ab, correction_05_to_inf,
      correction_02_to_05, zp_stmag, zp_abmag>>

Arrays == <<instrumental_flux, flux05, flux_inf, f_lambda, stmags, abmags, vegamags>>

Representable ==
    /\ \A i \in DOMAIN Numbers : Numbers[i].t # "unrep" /\ Sign(Numbers[i]) \in {-1, 0, 1, 2}
    /\ \A i \in DOMAIN Arrays : Bound(Arrays[i]) =>
          \A j \in DOMAIN Arrays[i].v :
             /\ Arrays[i].v[j].t # "unrep"
             /\ Arrays[i].v[j].t = "fin" => Sign(Arrays[i].v[j]) # 2


(***************************************************************************)
(* Helpers of the properties.                                              *)
(***************************************************************************)
\* The run is past the named cell.
Past(cell) == \E k \in 1..Len(Cells) : Cells[k] = cell /\ pc > k

Index(a) == DOMAIN a.v

IsPositiveFinite(x) == IsFinite(x) /\ Sign(x) = 1

RECURSIVE Power(_, _)
Power(b, n) == IF n = 0 THEN 1 ELSE b * Power(b, n - 1)

IsInteger(r) == r[2] = 1

Positive(n) == IF n > 0 THEN n ELSE 0

\* 10^x, the inverse of log10 the specification's round trip uses: exact
\* where x = q + a*log10(2) + b*log10(3) + c*log10(61) with integers q, a, b, c.
Pow10(x) ==
    CASE x.t = "nan" -> NaN
      [] x.t = "inf" -> IF x.s = 1 THEN Inf(1) ELSE Num(0, 1)
      [] x.t = "fin" /\ IsInteger(x.q) /\ \A i \in 1..3 : IsInteger(x.l[i]) ->
            LET e2 == x.q[1] + x.l[1][1]
                e3 == x.l[2][1]
                e5 == x.q[1]
                e61 == x.l[3][1]
            IN  Num(Power(2, Positive(e2)) * Power(3, Positive(e3))
                      * Power(5, Positive(e5)) * Power(61, Positive(e61)),
                    Power(2, Positive(-e2)) * Power(3, Positive(-e3))
                      * Power(5, Positive(-e5)) * Power(61, Positive(-e61)))
      [] OTHER -> Unrep

\* The flux a magnitude stands for: 10^((zp - mag)/2.5).
FluxOfMagnitude(mag, zp) == Pow10(Div(Sub(zp, mag), Num(25, 10)))

(***************************************************************************)
(* C1.  The aperture-correction step divides every raw measurement by c1   *)
(* (giving flux05, the flux in the medium aperture) and the result by c2   *)
(* (giving flux_inf), so that for non-zero c1 and c2                       *)
(* flux_inf = flux_raw / (c1 * c2).                                        *)
(***************************************************************************)
C1_ApertureChain ==
    Bound(flux_inf) =>
        /\ Bound(flux05)
        /\ Index(flux05) = Index(instrumental_flux)
        /\ Index(flux_inf) = Index(instrumental_flux)
        /\ \A i \in Index(instrumental_flux) :
              /\ flux05.v[i] = Div(instrumental_flux.v[i], correction_02_to_05)
              /\ flux_inf.v[i] = Div(flux05.v[i], correction_05_to_inf)
              /\ (~IsZero(correction_02_to_05) /\ ~IsZero(correction_05_to_inf))
                    => flux_inf.v[i]
                         = Div(instrumental_flux.v[i],
                               Mul(correction_02_to_05, correction_05_to_inf))

\* flux_raw = 10, c1 = 0.5, c2 = 0.9: flux_medium = 20, flux_inf = 200/9 = 22.222...
C1_Witness ==
    /\ Bound(flux_inf)
    /\ correction_02_to_05 = Num(1, 2)
    /\ correction_05_to_inf = Num(9, 10)
    /\ \E i \in Index(instrumental_flux) :
          /\ instrumental_flux.v[i] = Num(10, 1)
          /\ flux05.v[i] = Num(20, 1)
          /\ flux_inf.v[i] = Num(200, 9)

(***************************************************************************)
(* C2.  For positive photflam and photplam the zeropoint step yields       *)
(* zp_st = -2.5*log10(photflam) - 21.10 and                                *)
(* zp_ab = -2.5*log10(photflam) - 5*log10(photplam) - 2.408, so that       *)
(* zp_ab - zp_st = -5*log10(photplam) + 18.692, whatever photflam is.      *)
(***************************************************************************)
C2_Zeropoints ==
    (Bound(zp_abmag) /\ IsPositiveFinite(photflam) /\ IsPositiveFinite(photplam)) =>
        /\ zp_stmag = Sub(Mul(Num(-5, 2), Log10(photflam)), Num(211, 10))
        /\ zp_abmag = Sub(Sub(Mul(Num(-5, 2), Log10(photflam)),
                              Mul(Num(5, 1), Log10(photplam))),
                          Num(2408, 1000))
        /\ Sub(zp_abmag, zp_stmag)
             = Add(Mul(Num(-5, 1), Log10(photplam)), Num(18692, 1000))

\* photflam = 0.001: zp_st = 7.5 - 21.10 = -13.6.
C2_Witness ==
    /\ Bound(zp_abmag)
    /\ photflam = Num(1, 1000)
    /\ photplam = Num(5400, 1)
    /\ zp_stmag = Num(-136, 10)
    /\ IsFinite(zp_abmag)

(***************************************************************************)
(* C3.  For every corrected flux flux_inf > 0 the magnitude converter      *)
(* yields f_lambda = flux_inf * photflam and the ST, AB and Vega           *)
(* magnitudes -2.5*log10(flux_inf) + zeropoint, the ST and AB zeropoints   *)
(* being the closed-form values of photflam and photplam and the Vega      *)
(* zeropoint the value the synthetic observation returned.                 *)
(***************************************************************************)
C3_MagnitudeConverter ==
    Bound(vegamags) =>
        /\ zp_vega \in VegaZeropoints
        /\ \A i \in Index(flux_inf) :
              IsPositive(flux_inf.v[i]) =>
                 LET m == Mul(Num(-5, 2), Log10(flux_inf.v[i]))
                 IN  /\ f_lambda.v[i] = Mul(flux_inf.v[i], photflam)
                     /\ stmags.v[i] =
                          Add(m, Sub(Mul(Num(-5, 2), Log10(photflam)), Num(211, 10)))
                     /\ abmags.v[i] =
                          Add(m, Sub(Sub(Mul(Num(-5, 2), Log10(photflam)),
                                         Mul(Num(5, 1), Log10(photplam))),
                                     Num(2408, 1000)))
                     /\ vegamags.v[i] = Add(m, zp_vega)

C3_Witness ==
    /\ Bound(vegamags)
    /\ zp_st # zp_stmag
    /\ \E i \in Index(flux_inf) :
          /\ IsPositiveFinite(flux_inf.v[i])
          /\ IsFinite(stmags.v[i]) /\ IsFinite(abmags.v[i]) /\ IsFinite(vegamags.v[i])
          /\ stmags.v[i] # vegamags.v[i]

(***************************************************************************)
(* C4.  Whenever a value passed to a logarithm is zero or negative         *)
(* (photflam in the zeropoint step, an element of flux_inf in the          *)
(* magnitude converter), the step raises and produces no zeropoint or      *)
(* magnitude: no NaN or infinity is returned.                              *)
(***************************************************************************)
C4_LogDomainErrorRaised ==
    /\ (Past("recalc_zeropoints") /\ Bound(photflam) /\ IsNonPositive(photflam))
          => ~Bound(zp_stmag) /\ ~Bound(zp_abmag)
    /\ (Past("convert") /\ Bound(flux_inf)
          /\ \E i \in Index(flux_inf) : IsNonPositive(flux_inf.v[i]))
          => ~Bound(stmags) /\ ~Bound(abmags) /\ ~Bound(vegamags)

(***************************************************************************)
(* C5.  When c1 or c2 is 0 the aperture-correction step flags the input    *)
(* and does not divide: no flux05 or flux_inf comes from a zero divisor.   *)
(***************************************************************************)
C5_ZeroDivisorRejected ==
    /\ (Past("aperture") /\ Bound(correction_02_to_05) /\ IsZero(correction_02_to_05))
          => ~Bound(flux05) /\ ~Bound(flux_inf)
    /\ (Past("aperture") /\ Bound(correction_05_to_inf) /\ IsZero(correction_05_to_inf))
          => ~Bound(flux_inf)


(***************************************************************************)
(* C6.  The result table of n raw fluxes has n records; record i holds     *)
(* raw flux i, unmodified, with the f_lambda and the ST, AB and Vega       *)
(* magnitudes derived from that flux i.                                    *)
(***************************************************************************)
C6_TableRecords ==
    Bound(phot_table) =>
        /\ DOMAIN phot_table.cols = {TableColumns[k] : k \in DOMAIN TableColumns}
        /\ \A c \in DOMAIN phot_table.cols :
              DOMAIN phot_table.cols[c] = Index(instrumental_flux)
        /\ \A i \in Index(instrumental_flux) :
              LET raw == instrumental_flux.v[i]
                  corrected == Div(Div(raw, correction_02_to_05), correction_05_to_inf)
                  m == Mul(Num(-5, 2), Log10(corrected))
              IN  /\ phot_table.cols["Measured Flux"][i] = raw
                  /\ phot_table.cols["F_lambda"][i] = Mul(corrected, photflam)
                  /\ phot_table.cols["ST Mag"][i] = Add(m, zp_stmag)
                  /\ phot_table.cols["AB Mag"][i] = Add(m, zp_abmag)
                  /\ phot_table.cols["Vega Mag"][i] = Add(m, zp_vega)

\* Two sources of different flux, in the order of the input.
C6_Witness ==
    /\ Bound(phot_table)
    /\ instrumental_flux.v = <<Num(10, 1), Num(5, 1)>>
    /\ phot_table.cols["Measured Flux"] = <<Num(10, 1), Num(5, 1)>>
    /\ IsFinite(phot_table.cols["ST Mag"][1])
    /\ phot_table.cols["ST Mag"][1] # phot_table.cols["ST Mag"][2]

C8_RoundTrip ==
    Bound(vegamags) =>
        \A i \in Index(flux_inf) :
            IsPositiveFinite(flux_inf.v[i]) =>
               /\ IsFinite(zp_stmag) =>
                     FluxOfMagnitude(stmags.v[i], zp_stmag) = flux_inf.v[i]
               /\ IsFinite(zp_abmag) =>
                     FluxOfMagnitude(abmags.v[i], zp_abmag) = flux_inf.v[i]
               /\ IsFinite(zp_vega) =>
                     FluxOfMagnitude(vegamags.v[i], zp_vega) = flux_inf.v[i]

\* flux_inf = 10/0.5/0.915 = 4000/183 comes back from its ST magnitude.
C8_Witness ==
    /\ Bound(vegamags)
    /\ IsFinite(zp_stmag)
    /\ \E i \in Index(flux_inf) :
          /\ flux_inf.v[i] = Num(4000, 183)
          /\ IsFinite(stmags.v[i])
          /\ stmags.v[i] # zp_stmag
          /\ FluxOfMagnitude(stmags.v[i], zp_stmag) = Num(4000, 183)

(***************************************************************************)
(* C9.  Once photflam and photplam are derived no later step rebinds       *)
(* them, and the aperture-correction, zeropoint and magnitude steps leave  *)
(* the raw measurements, both correction factors and the zeropoints as     *)
(* they are: each step only binds new derived values.                      *)
(***************************************************************************)
C9_Frame ==
    [][/\ (Bound(photflam) => photflam' = photflam)
       /\ (Bound(photplam) => photplam' = photplam)
       /\ (At("aperture") \/ At("recalc_zeropoints") \/ At("convert")) =>
             UNCHANGED <<instrumental_flux, correction_02_to_05,
                         correction_05_to_inf, zp_vega, zp_st, zp_ab>>
       /\ (At("aperture") \/ At("convert")) => UNCHANGED <<zp_stmag, zp_abmag>>
       /\ (At("recalc_zeropoints") \/ At("convert")) => UNCHANGED <<flux05, flux_inf>>
      ]_vars

C9_Witness ==
    /\ Past("convert")
    /\ Bound(photflam) /\ Bound(photplam)
    /\ Bound(flux_inf) /\ Bound(zp_abmag) /\ Bound(vegamags)
    /\ Bound(instrumental_flux) /\ Len(instrumental_flux.v) > 0

(***************************************************************************)
(* C10.  photflam, photplam, the three zeropoints and c1 are derived from  *)
(* bandpasses of one detector, filter and epoch, acs,wfc1,f555w,mjd#57754; *)
(* the two bandpasses of c1 differ from it in the aperture radius only     *)
(* (0.2 and 0.5).                                                          *)
(***************************************************************************)
ReferenceConfiguration ==
    <<<<"a","c","s">>, <<"w","f","c","1">>, <<"f","5","5","5","w">>,
      <<"m","j","d","#","5","7","7","5","4">>>>

C10_SameConfiguration ==
    /\ \A n \in CalibrationNames : \A m \in provenance[n] :
          Configuration(m) = ReferenceConfiguration
    /\ \A n \in CalibrationNames \ {"correction_02_to_05"} :
          \A m \in provenance[n] : Aperture(m) = <<>>
    /\ Bound(bp) => Configuration(bp.modes) = ReferenceConfiguration
    /\ Bound(photflam) => provenance["photflam"] # {}
    /\ Bound(photplam) => provenance["photplam"] # {}
    /\ Bound(zp_vega) => provenance["zp_vega"] # {}
    /\ Bound(zp_st) => provenance["zp_st"] # {}
    /\ Bound(zp_ab) => provenance["zp_ab"] # {}
    /\ Bound(correction_02_to_05) =>
          {Aperture(m) : m \in provenance["correction_02_to_05"]}
             = {<<"0", ".", "2">>, <<"0", ".", "5">>}

C10_Witness ==
    /\ Bound(correction_02_to_05)
    /\ Bound(photflam) /\ Bound(photplam) /\ Bound(zp_vega)
    /\ Cardinality(provenance["correction_02_to_05"]) = 2
    /\ provenance["photflam"] = {ReferenceConfiguration}
    /\ Bound(flux_inf)

(***************************************************************************)
(* C11.  The record of source i in the table depends on raw flux i and the *)
(* shared constants only: it is the record the same cells give for that    *)
(* source alone, so the sources may be processed one at a time in any      *)
(* order or interleaving; the measurements given in another order yield    *)
(* the same records in that order; and another raw flux j leaves the       *)
(* record of every source i # j as it is.                                  *)
(***************************************************************************)
\* The table the cells of the aperture chain, the conversion and the table
\* give for the measurements raw under the constants of the namespace.
ResultTable(raw) ==
    LET corrected == FluxInf(Flux05(raw, correction_02_to_05), correction_05_to_inf)
    IN  Table(raw, FLambda(corrected, photflam),
              Magnitudes(corrected, STZeropointUsed),
              Magnitudes(corrected, ABZeropointUsed),
              Magnitudes(corrected, VegaZeropointUsed))

\* The record (row) of source i.
PhotometryResult(table, i) == [c \in DOMAIN table.cols |-> table.cols[c][i]]

Reordered(raw, p) == [k \in DOMAIN raw |-> raw[p[k]]]

C11_IndependentSources ==
    Bound(phot_table) =>
       LET raw == instrumental_flux.v
           n == Len(raw)
       IN  /\ phot_table = ResultTable(instrumental_flux)
           /\ \A i \in 1..n :
                 PhotometryResult(phot_table, i)
                    = PhotometryResult(ResultTable(Array(<<raw[i]>>)), 1)
           /\ \A p \in Permutations(1..n) : \A i \in 1..n :
                 PhotometryResult(ResultTable(Array(Reordered(raw, p))), i)
                    = PhotometryResult(phot_table, p[i])
           /\ \A j \in 1..n : \A other \in FluxValues : \A i \in 1..n \ {j} :
                 PhotometryResult(ResultTable(Array([raw EXCEPT ![j] = other])), i)
                    = PhotometryResult(phot_table, i)

C11_Witness ==
    /\ Done
    /\ Bound(phot_table)
    /\ Len(instrumental_flux.v) = MaxSources
    /\ instrumental_flux.v[1] = Num(10, 1) /\ instrumental_flux.v[2] = Num(5, 1)
    /\ correction_02_to_05 = Num(1, 2) /\ correction_05_to_inf = Num(9, 10)
    /\ PhotometryResult(phot_table, 1)["F_lambda"]
          # PhotometryResult(phot_table, 2)["F_lambda"]
    /\ IsFinite(stmags.v[1]) /\ IsFinite(stmags.v[2])

(***************************************************************************)
(* C12.  In a run of every cell once, from the top down, no cell reads a   *)
(* name that is not bound, and spec_bb at help(spec_bb.renorm) and at      *)
(* pyS.Observation(spec_bb, band02/band05), and spec_bb_norm and bp at     *)
(* pyS.Observation(spec_bb_norm, bp), are the objects pysynphot made.      *)
(***************************************************************************)
\* Every cell above the next one has been executed.
TopToBottom == \A k \in 1..(pc - 1) : Cells[k] \in executed

C12_PysynphotObjectsUsed ==
    TopToBottom =>
       /\ outcome # "NameError"
       /\ At("help_renorm") => Bound(spec_bb) /\ IsPysynphot(spec_bb)
       /\ At("observe") =>
             /\ Bound(spec_bb_norm) /\ IsPysynphot(spec_bb_norm)
             /\ Bound(bp) /\ IsPysynphot(bp)
       /\ At("bands") => Bound(spec_bb) /\ IsPysynphot(spec_bb)

=============================================================================
